---------------------------- MODULE Spec2Model ----------------------------
(***************************************************************************)
(* The resume analysis service of src/api.py: the /analyze route, the      *)
(* analysis function analyze_resume and the course sampler                 *)
(* course_recommender, with the module-level course lists they share.      *)
(*                                                                         *)
(* A Python str is a sequence of one-character strings, so that            *)
(* str.lower() and the substring test `kw in text` are computed and not    *)
(* assumed.  A Python dict is a function from its keys.  A Python list is  *)
(* a sequence, indexed from 1 here and from 0 in the source.               *)
(*                                                                         *)
(* Result fields that no statement below reads and that do not feed any    *)
(* decision (name, email, mobile_number, recommended_skills, the two       *)
(* video picks, timestamp) are left out of the result dict.                *)
(***************************************************************************)
EXTENDS Integers, Sequences, FiniteSets, TLC

(***************************************************************************)
(* Bounds of the model.                                                    *)
(***************************************************************************)
\* longest course list loaded from Courses.py (the sampler's list)
MaxCat == 6
\* length of the Data Science list in the other specifications
ShortCat == 2
\* longest skills list the parser delivers
MaxSkills == 2
\* most text fragments concatenated into a resume text
MaxFrags == 2
\* largest reading of time.time()
MaxClock == 1
\* largest page count the parser delivers
MaxPages == 4

\* requests the server handles at the same time (one thread each)
NReq == 2

Reqs == 1..NReq

(***************************************************************************)
(* Strings.                                                                *)
(***************************************************************************)
\* src/api.py:103
ds_keyword ==
  << <<"t","e","n","s","o","r","f","l","o","w">>,
     <<"k","e","r","a","s">>,
     <<"p","y","t","o","r","c","h">>,
     <<"m","a","c","h","i","n","e"," ","l","e","a","r","n","i","n","g">>,
     <<"d","e","e","p"," ","l","e","a","r","n","i","n","g">>,
     <<"f","l","a","s","k">>,
     <<"s","t","r","e","a","m","l","i","t">>,
     <<"p","y","t","h","o","n">> >>

\* src/api.py:104
web_keyword ==
  << <<"r","e","a","c","t">>,
     <<"d","j","a","n","g","o">>,
     <<"n","o","d","e"," ","j","s">>,
     <<"r","e","a","c","t"," ","j","s">>,
     <<"p","h","p">>,
     <<"l","a","r","a","v","e","l">>,
     <<"m","a","g","e","n","t","o">>,
     <<"w","o","r","d","p","r","e","s","s">>,
     <<"j","a","v","a","s","c","r","i","p","t">>,
     <<"a","n","g","u","l","a","r"," ","j","s">>,
     <<"c","#">>,
     <<"f","l","a","s","k">> >>

\* src/api.py:105
android_keyword ==
  << <<"a","n","d","r","o","i","d">>,
     <<"a","n","d","r","o","i","d"," ","d","e","v","e","l","o","p","m","e","n","t">>,
     <<"f","l","u","t","t","e","r">>,
     <<"k","o","t","l","i","n">>,
     <<"x","m","l">>,
     <<"k","i","v","y">>,
     <<"j","a","v","a">> >>

\* src/api.py:106
ios_keyword ==
  << <<"i","o","s">>,
     <<"i","o","s"," ","d","e","v","e","l","o","p","m","e","n","t">>,
     <<"s","w","i","f","t">>,
     <<"c","o","c","o","a">>,
     <<"c","o","c","o","a"," ","t","o","u","c","h">>,
     <<"x","c","o","d","e">> >>

\* src/api.py:107
uiux_keyword ==
  << <<"u","x">>,
     <<"a","d","o","b","e"," ","x","d">>,
     <<"f","i","g","m","a">>,
     <<"z","e","p","l","i","n">>,
     <<"b","a","l","s","a","m","i","q">>,
     <<"u","i">>,
     <<"p","r","o","t","o","t","y","p","i","n","g">>,
     <<"w","i","r","e","f","r","a","m","e">>,
     <<"p","h","o","t","o","s","h","o","p">>,
     <<"i","l","l","u","s","t","r","a","t","o","r">> >>

\* src/api.py:139-145; a dict keeps its insertion order, kept here as a sequence
sections_to_check ==
  << [section |-> "objective", keywords |-> << <<"o","b","j","e","c","t","i","v","e">>, <<"s","u","m","m","a","r","y">> >>],
     [section |-> "declaration", keywords |-> << <<"d","e","c","l","a","r","a","t","i","o","n">> >>],
     [section |-> "hobbies", keywords |-> << <<"h","o","b","b","i","e","s">>, <<"i","n","t","e","r","e","s","t","s">> >>],
     [section |-> "achievements", keywords |-> << <<"a","c","h","i","e","v","e","m","e","n","t","s">>, <<"a","w","a","r","d","s">>, <<"c","e","r","t","i","f","i","c","a","t","i","o","n","s">> >>],
     [section |-> "projects", keywords |-> << <<"p","r","o","j","e","c","t","s">>, <<"e","x","p","e","r","i","e","n","c","e">>, <<"w","o","r","k"," ","e","x","p","e","r","i","e","n","c","e">> >>] >>

RawSkills ==
  { <<"P","y","t","h","o","n">>,
    <<"F","L","A","S","K">>,
    <<"R","e","a","c","t">>,
    <<"J","a","v","a">>,
    <<"s","w","i","f","t">>,
    <<"F","i","g","m","a">>,
    <<"E","x","c","e","l">> }

Fragments ==
  { <<"O","b","j","e","c","t","i","v","e"," ">>,
    <<"S","U","M","M","A","R","Y"," ">>,
    <<"D","e","c","l","a","r","a","t","i","o","n"," ">>,
    <<"h","o","b","b","i","e","s"," ">>,
    <<"I","n","t","e","r","e","s","t","s"," ">>,
    <<"A","w","a","r","d","s"," ">>,
    <<"C","e","r","t","i","f","i","c","a","t","i","o","n","s","\n">>,
    <<"P","r","o","j","e","c","t","s","\n">>,
    <<"w","o","r","k"," ","e","x","p">>,
    <<"e","r","i","e","n","c","e"," ">>,
    <<"u","i"," ">> }

UpperCase == <<"A","B","C","D","E","F","G","H","I","J","K","L","M","N","O","P","Q","R","S","T","U","V","W","X","Y","Z">>
LowerCase == <<"a","b","c","d","e","f","g","h","i","j","k","l","m","n","o","p","q","r","s","t","u","v","w","x","y","z">>

Range(s) == {s[k] : k \in DOMAIN s}

Min(a, b) == IF a <= b THEN a ELSE b

\* str.lower() on one character (ASCII)
LowerChar(c) ==
  IF \E k \in DOMAIN UpperCase : UpperCase[k] = c
  THEN LowerCase[CHOOSE k \in DOMAIN UpperCase : UpperCase[k] = c]
  ELSE c

\* str.lower(): src/api.py:87 and :100
Lower(s) == [k \in DOMAIN s |-> LowerChar(s[k])]

\* `kw in text` for two str: kw occurs as a contiguous substring of text
Contains(text, kw) ==
  \E k \in 0..(Len(text) - Len(kw)) : SubSeq(text, k + 1, k + Len(kw)) = kw

\* dict.get(key, default)
Get(d, key, default) == IF key \in DOMAIN d THEN d[key] ELSE default

\* the empty dict {}
EmptyDict == <<>>

(***************************************************************************)
(* Values of no_of_pages: an int, or None.  NoneVal is Python's None, also *)
(* what dict.get(key) gives for a missing key (src/api.py:163).            *)
(***************************************************************************)
IntVal(n) == [tag |-> "int", v |-> n]
NoneVal == [tag |-> "None", v |-> 0]
IsInt(p) == p.tag = "int"

(***************************************************************************)
(* Candidate level, src/api.py:89-97.  None == 1 and None == 2 are False   *)
(* in Python; None >= 3 raises TypeError.                                  *)
(***************************************************************************)
CandLevel(page_count) ==
  IF IsInt(page_count) /\ page_count.v = 1
  THEN [ok |-> TRUE, level |-> "Fresher"]
  ELSE IF IsInt(page_count) /\ page_count.v = 2
  THEN [ok |-> TRUE, level |-> "Intermediate"]
  ELSE IF ~IsInt(page_count)
  THEN [ok |-> FALSE, level |-> "TypeError"]
  ELSE IF page_count.v >= 3
  THEN [ok |-> TRUE, level |-> "Experienced"]
  ELSE [ok |-> TRUE, level |-> ""]

(***************************************************************************)
(* Field prediction, src/api.py:100-133.                                   *)
(***************************************************************************)
\* any(i in keyword for i in skills_lower)
AnyIn(skills_lower, keyword) == \E i \in skills_lower : i \in Range(keyword)

\* {skill.lower() for skill in resume_data.get('skills', [])}
SkillsLower(resume_data) ==
  {Lower(skill) : skill \in Range(Get(resume_data, "skills", <<>>))}

\* the chain with the first two tests in the other order
RecoField_WebFirst(skills_lower) ==
  IF AnyIn(skills_lower, web_keyword) THEN "Web Development"
  ELSE IF AnyIn(skills_lower, ds_keyword) THEN "Data Science"
  ELSE IF AnyIn(skills_lower, android_keyword) THEN "Android Development"
  ELSE IF AnyIn(skills_lower, ios_keyword) THEN "IOS Development"
  ELSE IF AnyIn(skills_lower, uiux_keyword) THEN "UI-UX Development"
  ELSE "Other"

\* the if / elif chain of src/api.py:114-133
RecoField(skills_lower) ==
  IF AnyIn(skills_lower, ds_keyword) THEN "Data Science"
  ELSE IF AnyIn(skills_lower, web_keyword) THEN "Web Development"
  ELSE IF AnyIn(skills_lower, android_keyword) THEN "Android Development"
  ELSE IF AnyIn(skills_lower, ios_keyword) THEN "IOS Development"
  ELSE IF AnyIn(skills_lower, uiux_keyword) THEN "UI-UX Development"
  ELSE "Other"

Fields ==
  {"Data Science", "Web Development", "Android Development",
   "IOS Development", "UI-UX Development"}

(***************************************************************************)
(* Section score, src/api.py:135-152.                                      *)
(***************************************************************************)
\* any(keyword in resume_text_lower for keyword in keywords)
SectionPresent(resume_text_lower, keywords) ==
  \E k \in DOMAIN keywords : Contains(resume_text_lower, keywords[k])

\* 20 for every keyword of the section that occurs
SectionPoints_PerKeyword(resume_text_lower, keywords) ==
  20 * Cardinality({k \in DOMAIN keywords :
                      Contains(resume_text_lower, keywords[k])})

\* what one present section adds to resume_score, src/api.py:149
SectionPoints(resume_text_lower, keywords) == 20

\* the loop of src/api.py:147-152 over the first n sections
RECURSIVE ScoreLoop(_, _)
ScoreLoop(resume_text_lower, n) ==
  IF n = 0
  THEN [resume_score |-> 0, score_breakdown |-> EmptyDict]
  ELSE LET prev == ScoreLoop(resume_text_lower, n - 1)
           sec == sections_to_check[n]
       IN IF SectionPresent(resume_text_lower, sec.keywords)
          THEN [resume_score |->
                  prev.resume_score
                  + SectionPoints(resume_text_lower, sec.keywords),
                score_breakdown |->
                  (sec.section :> TRUE) @@ prev.score_breakdown]
          ELSE [resume_score |-> prev.resume_score,
                score_breakdown |->
                  (sec.section :> FALSE) @@ prev.score_breakdown]

SectionScan(resume_text) ==
  ScoreLoop(Lower(resume_text), Len(sections_to_check))

(***************************************************************************)
(* Course sampling, src/api.py:60-69.                                      *)
(***************************************************************************)
\* the slice one entry too long
FirstFive_OffByOne(course_list) ==
  SubSeq(course_list, 1, Min(6, Len(course_list)))

\* course_list[:5], src/api.py:67
FirstFive(course_list) == SubSeq(course_list, 1, Min(5, Len(course_list)))

\* the loop body of src/api.py:67-68: a (c_name, c_link) pair becomes a dict
CourseDict(entry) == [name |-> entry[1], link |-> entry[2]]

\* the list built by src/api.py:65-69 from the (already shuffled) list
Recommended(course_list) ==
  [k \in DOMAIN FirstFive(course_list) |-> CourseDict(FirstFive(course_list)[k])]

(***************************************************************************)
(* What analyze_resume hands back to the route (src/api.py:72-176), and    *)
(* the response the route makes of it (src/api.py:215-230).                *)
(***************************************************************************)
Returned(value) == [kind |-> "return", value |-> value, exc |-> ""]
Raised(exc) == [kind |-> "raise", value |-> EmptyDict, exc |-> exc]

\* src/api.py:80
ParserError(e) ==
  Returned([error |-> <<"Error parsing resume with pyresparser: ", e>>])

\* src/api.py:83
NoDataError ==
  Returned([error |->
    <<"Could not extract any data from the resume. Is it a valid resume format?">>])

\* `if not resume_data`, src/api.py:82: None and {} are both falsy
Falsy(out) == out.kind = "None" \/ DOMAIN out.d = {}

\* src/api.py:77-83: the value analyze_resume returns at once, if any
ParseFailure(out) ==
  IF out.kind = "raise" THEN ParserError(out.e)
  ELSE IF Falsy(out) THEN NoDataError
  ELSE Returned(EmptyDict)

\* the check of src/api.py:82 left out
ParseContinues_NoEmptyCheck(out) == out.kind # "raise"

\* src/api.py:77-83: whether analyze_resume goes on to pdf_reader
ParseContinues(out) == out.kind # "raise" /\ ~Falsy(out)

GenericError ==
  [error |-> <<"An unexpected server error occurred during analysis.">>]

\* src/api.py:215-230
RouteResponse(outcome) ==
  IF outcome.kind = "raise"
  THEN [status |-> 500, body |-> GenericError]
  ELSE IF "error" \in DOMAIN outcome.value
  THEN [status |-> 400, body |-> outcome.value]
  ELSE [status |-> 200, body |-> outcome.value]

\* an exception that leaves analyze_route: Flask answers 500 with a page of
\* its own (under debug=True, src/api.py:245, the debugger's traceback)
Unhandled(exc) == [status |-> 500, body |-> [traceback |-> exc]]

\* src/api.py:159-174; "skills" is resume_data.get('skills'), None when the
\* key is missing, while the field is predicted from .get('skills', [])
AnalysisResult(resume_data, page_count, cand_level, reco_field, recommended_courses, scan) ==
  [skills |-> Get(resume_data, "skills", NoneVal),
   no_of_pages |-> page_count,
   candidate_level |-> cand_level,
   predicted_field |-> reco_field,
   recommended_courses |-> recommended_courses,
   resume_score |-> scan.resume_score,
   score_breakdown |-> scan.score_breakdown]

(***************************************************************************)
(* Inputs.                                                                 *)
(***************************************************************************)
SeqsUpTo(S, n) == UNION {[1..k -> S] : k \in 0..n}

RECURSIVE Flatten(_)
Flatten(ss) == IF ss = <<>> THEN <<>> ELSE Head(ss) \o Flatten(Tail(ss))

\* resume texts: up to MaxFrags fragments, concatenated
WideTexts == {Flatten(ss) : ss \in SeqsUpTo(Fragments, MaxFrags)}

NarrowTexts == {<<"P","r","o","j","e","c","t","s">>}

\* values of no_of_pages: None, or an int
PageValues == {NoneVal} \cup {IntVal(n) : n \in (0 - 1)..MaxPages}

\* dicts delivered by the parser: with or without the key no_of_pages, with
\* or without the key skills
DataOf(skillLists, pages) ==
  {[skills |-> s, no_of_pages |-> p] : s \in skillLists, p \in pages}
  \cup {[skills |-> s] : s \in skillLists}
  \cup {[no_of_pages |-> p] : p \in pages}

WideData == DataOf(SeqsUpTo(RawSkills, MaxSkills), PageValues)

NarrowData ==
  {[skills |-> s, no_of_pages |-> p] :
     s \in {<< <<"P","y","t","h","o","n">> >>, << <<"E","x","c","e","l">> >>},
     p \in {IntVal(1), NoneVal}}

\* outcomes of ResumeParser(resume_path).get_extracted_data()
ParserOutcomes(DataDom) ==
  {[kind |-> "raise", e |-> "corrupt file", d |-> EmptyDict],
   [kind |-> "None", e |-> "", d |-> EmptyDict],
   [kind |-> "dict", e |-> "", d |-> EmptyDict]}
  \cup {[kind |-> "dict", e |-> "", d |-> d] : d \in DataDom}

\* the parser on a path that does not exist
Gone == [kind |-> "raise", e |-> "No such file or directory"]

\* how a parser outcome is recorded: raise, None, empty (dict) or dict
OutKind(out) ==
  IF out.kind = "dict" /\ DOMAIN out.d = {} THEN "empty" ELSE out.kind

\* outcomes of pdf_reader(resume_path)
ReaderOutcomes(TextDom) ==
  {[kind |-> "raise", exc |-> "PDFSyntaxError", text |-> <<>>]}
  \cup {[kind |-> "text", exc |-> "", text |-> t] : t \in TextDom}

\* file.filename of the uploaded part
FileNames == {"", "cv.pdf"}

\* the course lists of Courses.py for one field: n distinct [name, link] pairs
CourseList(f, n) == [k \in 1..n |-> << <<f, "course", k>>, <<f, "link", k>> >>]

(***************************************************************************)
(* State.                                                                  *)
(***************************************************************************)
VARIABLES
  courses,   \* the module-level lists ds_course, web_course, ... by field
  loaded,    \* the same lists as imported from Courses.py (never changed)
  fs,        \* the paths that exist in UPLOAD_FOLDER
  now,       \* the reading time.time() gives
  th         \* per request: position and locals of analyze_route, and what
             \* its collaborators did (parserCalls, readerCalls, parserOut,
             \* readerExc)

vars == <<courses, loaded, fs, now, th>>

NoCourse == <<>>

Idle ==
  [pc |-> "idle", path |-> <<0, "">>, resume_data |-> EmptyDict,
   resume_text |-> <<>>, cand_level |-> "", reco_field |-> "Other",
   i |-> 0, j |-> 0, ti |-> NoCourse, tj |-> NoCourse,
   recommended_courses |-> <<>>, outcome |-> Returned(EmptyDict),
   response |-> <<>>, parserCalls |-> 0, readerCalls |-> 0,
   parserOut |-> [kind |-> "", e |-> ""], readerExc |-> ""]

\* the state after import: lists of the given lengths, nothing uploaded
InitWith(dsLens, otherLens) ==
  /\ loaded \in {[f \in Fields |->
                    IF f = "Data Science" THEN CourseList(f, n)
                    ELSE CourseList(f, m)] : n \in dsLens, m \in otherLens}
  /\ courses = loaded
  /\ fs = {}
  /\ now = 0
  /\ th = [r \in Reqs |-> Idle]

\* analyze_route returns: the response goes out and the locals are gone;
\* the inputs are kept for the statements below
Deliver(r, resp) ==
  th' = [th EXCEPT ![r] = [@ EXCEPT !.pc = "done", !.response = <<resp>>]]

\* analyze_resume is left (return or raise): on to the finally block
Leave(r, rec, outcome) ==
  th' = [th EXCEPT ![r] = [rec EXCEPT !.pc = "finally", !.outcome = outcome]]

(***************************************************************************)
(* Actions.                                                                *)
(***************************************************************************)
\* time passes
Tick ==
  /\ now < MaxClock
  /\ now' = now + 1
  /\ UNCHANGED <<courses, loaded, fs, th>>

\* src/api.py:196-208: the checks on the request, and the file name.  A
\* part with a non-empty file name is truthy, so src/api.py:239 is not reached
Receive(r) ==
  /\ th[r].pc = "idle"
  /\ \E hasPart \in BOOLEAN, filename \in FileNames :
       IF ~hasPart
       THEN Deliver(r, [status |-> 400,
                        body |-> [error |-> <<"No resume file part in the request">>]])
       ELSE IF filename = ""
       THEN Deliver(r, [status |-> 400,
                        body |-> [error |-> <<"No file selected">>]])
       ELSE th' = [th EXCEPT ![r] =
                     [@ EXCEPT !.pc = "save", !.path = <<now, filename>>]]
  /\ UNCHANGED <<courses, loaded, fs, now>>

\* src/api.py:209: file.save(file_path)
SaveFile(r) ==
  /\ th[r].pc = "save"
  /\ fs' = fs \cup {th[r].path}
  /\ th' = [th EXCEPT ![r].pc = "parse"]
  /\ UNCHANGED <<courses, loaded, now>>

\* src/api.py:77-83: the parser is called; it fails on a file that is gone
ParseResume(r, DataDom) ==
  /\ th[r].pc = "parse"
  /\ LET rec == [th[r] EXCEPT !.parserCalls = @ + 1]
     IN IF th[r].path \notin fs
        THEN Leave(r, [rec EXCEPT !.parserOut = Gone],
                   ParseFailure(Gone))
        ELSE \E out \in ParserOutcomes(DataDom) :
               LET rec2 == [rec EXCEPT !.parserOut =
                              [kind |-> OutKind(out), e |-> out.e]]
               IN IF ParseContinues(out)
                  THEN th' = [th EXCEPT ![r] =
                                [rec2 EXCEPT !.pc = "read",
                                             !.resume_data = out.d]]
                  ELSE Leave(r, rec2, ParseFailure(out))
  /\ UNCHANGED <<courses, loaded, fs, now>>

\* src/api.py:86-87: pdf_reader is called, outside any try of analyze_resume
ReadPdf(r, TextDom) ==
  /\ th[r].pc = "read"
  /\ LET rec == [th[r] EXCEPT !.readerCalls = @ + 1]
     IN IF th[r].path \notin fs
        THEN Leave(r, [rec EXCEPT !.readerExc = "FileNotFoundError"],
                   Raised("FileNotFoundError"))
        ELSE \E out \in ReaderOutcomes(TextDom) :
               IF out.kind = "raise"
               THEN Leave(r, [rec EXCEPT !.readerExc = out.exc],
                          Raised(out.exc))
               ELSE th' = [th EXCEPT ![r] =
                             [rec EXCEPT !.pc = "classify",
                                         !.resume_text = out.text]]
  /\ UNCHANGED <<courses, loaded, fs, now>>

\* src/api.py:89-133, up to the call of course_recommender, and the start
\* of random.shuffle (src/api.py:64): len(course_list) is read once
LevelAndClassify(r) ==
  /\ th[r].pc = "classify"
  /\ LET page_count == Get(th[r].resume_data, "no_of_pages", IntVal(0))
         lv == CandLevel(page_count)
         reco_field == RecoField(SkillsLower(th[r].resume_data))
     IN IF ~lv.ok
        THEN Leave(r, th[r], Raised(lv.level))
        ELSE IF reco_field = "Other"
        THEN th' = [th EXCEPT ![r] =
                      [@ EXCEPT !.pc = "score", !.cand_level = lv.level,
                                !.reco_field = reco_field]]
        ELSE th' = [th EXCEPT ![r] =
                      [@ EXCEPT !.pc = IF Len(courses[reco_field]) >= 2
                                       THEN "shuffle" ELSE "take",
                                !.cand_level = lv.level,
                                !.reco_field = reco_field,
                                !.i = Len(courses[reco_field])]]
  /\ UNCHANGED <<courses, loaded, fs, now>>

\* random.shuffle, one round: j = randbelow(i + 1), and the right-hand side
\* of x[i], x[j] = x[j], x[i] is read
ShuffleRead(r) ==
  /\ th[r].pc = "shuffle"
  /\ \E j \in 1..th[r].i :
       th' = [th EXCEPT ![r] =
                [@ EXCEPT !.pc = "swap", !.j = j,
                          !.tj = courses[th[r].reco_field][j],
                          !.ti = courses[th[r].reco_field][th[r].i]]]
  /\ UNCHANGED <<courses, loaded, fs, now>>

\* random.shuffle, the same round: x[i] and then x[j] are stored
ShuffleWrite(r) ==
  /\ th[r].pc = "swap"
  /\ LET f == th[r].reco_field
         x1 == [courses[f] EXCEPT ![th[r].i] = th[r].tj]
         x2 == [x1 EXCEPT ![th[r].j] = th[r].ti]
     IN courses' = [courses EXCEPT ![f] = x2]
  /\ th' = [th EXCEPT ![r] =
              [@ EXCEPT !.pc = IF th[r].i - 1 >= 2 THEN "shuffle" ELSE "take",
                        !.i = th[r].i - 1, !.j = 0,
                        !.ti = NoCourse, !.tj = NoCourse]]
  /\ UNCHANGED <<loaded, fs, now>>

\* src/api.py:65-69: the slice is taken and the dicts are built from it
TakeFive(r) ==
  /\ th[r].pc = "take"
  /\ th' = [th EXCEPT ![r] =
              [@ EXCEPT !.pc = "score", !.i = 0,
                        !.recommended_courses =
                          Recommended(courses[th[r].reco_field])]]
  /\ UNCHANGED <<courses, loaded, fs, now>>

\* src/api.py:135-176: the section score and the result dict
ScoreAndReturn(r) ==
  /\ th[r].pc = "score"
  /\ Leave(r, th[r],
           Returned(AnalysisResult(
             th[r].resume_data,
             Get(th[r].resume_data, "no_of_pages", IntVal(0)),
             th[r].cand_level, th[r].reco_field,
             th[r].recommended_courses, SectionScan(th[r].resume_text))))
  /\ UNCHANGED <<courses, loaded, fs, now>>

\* src/api.py:235: os.path.exists(file_path)
CleanupCheck(r) ==
  /\ th[r].pc = "finally"
  /\ IF th[r].path \in fs
     THEN th' = [th EXCEPT ![r].pc = "remove"]
     ELSE Deliver(r, RouteResponse(th[r].outcome))
  /\ UNCHANGED <<courses, loaded, fs, now>>

\* src/api.py:236: os.remove(file_path); on a path that is gone it raises
\* FileNotFoundError, which leaves the finally block and the route
CleanupRemove(r) ==
  /\ th[r].pc = "remove"
  /\ IF th[r].path \in fs
     THEN /\ fs' = fs \ {th[r].path}
          /\ Deliver(r, RouteResponse(th[r].outcome))
     ELSE /\ fs' = fs
          /\ Deliver(r, Unhandled("FileNotFoundError"))
  /\ UNCHANGED <<courses, loaded, now>>

\* the thread takes the next request
NextRequest(r) ==
  /\ th[r].pc = "done"
  /\ th' = [th EXCEPT ![r] = Idle]
  /\ UNCHANGED <<courses, loaded, fs, now>>

Step(r, DataDom, TextDom) ==
  \/ Receive(r)
  \/ SaveFile(r)
  \/ ParseResume(r, DataDom)
  \/ ReadPdf(r, TextDom)
  \/ LevelAndClassify(r)
  \/ ShuffleRead(r)
  \/ ShuffleWrite(r)
  \/ TakeFive(r)
  \/ ScoreAndReturn(r)
  \/ CleanupCheck(r)
  \/ CleanupRemove(r)

(***************************************************************************)
(* Specifications.                                                         *)
(***************************************************************************)
\* NReq concurrent requests, each thread serving one
Init == InitWith({ShortCat}, {1})
Next == Tick \/ \E r \in Reqs : Step(r, NarrowData, NarrowTexts)
Spec == Init /\ [][Next]_vars

\* one thread, one request after the other; every structured record
InitFields == InitWith({ShortCat}, {1})
NextFields == Step(1, WideData, NarrowTexts) \/ NextRequest(1)
SpecFields == InitFields /\ [][NextFields]_vars

\* one thread, one request after the other; every resume text
InitScan == InitWith({ShortCat}, {1})
NextScan == Step(1, NarrowData, WideTexts) \/ NextRequest(1)
SpecScan == InitScan /\ [][NextScan]_vars

\* one thread, one request after the other; course lists of every length
InitSampler == InitWith(0..MaxCat, {1})
NextSampler == Step(1, NarrowData, NarrowTexts) \/ NextRequest(1)
SpecSampler == InitSampler /\ [][NextSampler]_vars

(***************************************************************************)
(* Vocabulary of the properties.                                           *)
(***************************************************************************)
\* analyze_resume is over for request r
Left(r) == th[r].pc \in {"finally", "remove", "done"}

\* analyze_resume returned an analysis result for request r
HasResult(r) ==
  /\ Left(r)
  /\ th[r].outcome.kind = "return"
  /\ "predicted_field" \in DOMAIN th[r].outcome.value

Result(r) == th[r].outcome.value

\* request r is inside course_recommender, between the shuffle and the slice
Sampling(r) == th[r].pc \in {"shuffle", "swap", "take"}

DupFree(s) == \A k, l \in DOMAIN s : k # l => s[k] # s[l]

\* every entry of a recommended list is an entry of the field's loaded list
DrawnFrom(rc, f) ==
  \A k \in DOMAIN rc : \E m \in DOMAIN loaded[f] : rc[k] = CourseDict(loaded[f][m])

\* the fields in the order of precedence, each with its keywords
FieldOrder ==
  << [field |-> "Data Science", keyword |-> ds_keyword],
     [field |-> "Web Development", keyword |-> web_keyword],
     [field |-> "Android Development", keyword |-> android_keyword],
     [field |-> "IOS Development", keyword |-> ios_keyword],
     [field |-> "UI-UX Development", keyword |-> uiux_keyword] >>

\* the positions, in that order, of the fields whose keywords meet S
Matching(S) ==
  {k \in DOMAIN FieldOrder : S \cap Range(FieldOrder[k].keyword) # {}}

SectionNames ==
  {"objective", "declaration", "hobbies", "achievements", "projects"}

(***************************************************************************)
(* C1.  After any number of calls of course_recommender on a field's list  *)
(* the list is as it was loaded: same order, same length, same entries.    *)
(* The code shuffles the module-level list in place (src/api.py:64), so    *)
(* this fails after the first call on a list of two or more entries.       *)
(***************************************************************************)
C1_CatalogUnchanged == courses = loaded

(***************************************************************************)
(* C2.  Concurrent calls that sample the same field do not interfere:      *)
(* every recommended list is duplicate-free and drawn from the loaded      *)
(* list, and while one call is between its shuffle and its slice no step   *)
(* of another call changes the list it reads.  Both parts fail: the calls  *)
(* shuffle the same list object.                                           *)
(***************************************************************************)
C2_SampleSound ==
  \A r \in Reqs :
    HasResult(r) /\ Result(r).predicted_field # "Other" =>
      /\ DupFree(Result(r).recommended_courses)
      /\ DrawnFrom(Result(r).recommended_courses, Result(r).predicted_field)

C2_NoInterference ==
  \A r, s \in Reqs :
    (r # s /\ th'[r] # th[r] /\ Sampling(s)) =>
      courses'[th[s].reco_field] = courses[th[s].reco_field]

\* C2: every step keeps the recommended lists sound and leaves alone the
\* list that another call is sampling
C2_Isolation == [][C2_SampleSound' /\ C2_NoInterference]_vars

\* the first part of C2 alone, as a state predicate
C2_DupFreeOnly == C2_SampleSound

(***************************************************************************)
(* C3.  The predicted field is Other exactly when the lower-cased skills   *)
(* meet no field's keywords; otherwise it is the first field, in the       *)
(* order Data Science, Web, Android, IOS, UI-UX, whose keywords they meet. *)
(***************************************************************************)
C3_FirstMatch ==
  \A r \in Reqs :
    HasResult(r) =>
      LET S == {Lower(s) : s \in Range(Get(th[r].resume_data, "skills", <<>>))}
          M == Matching(S)
          f == Result(r).predicted_field
      IN /\ (f = "Other") <=> (M = {})
         /\ M # {} =>
              /\ f = FieldOrder[CHOOSE k \in M : \A l \in M : k <= l].field
              /\ \A k \in M : FieldOrder[k].field # f =>
                   \E l \in M : l < k /\ FieldOrder[l].field = f

\* a result whose skills meet more Web keywords than Data Science keywords
\* and is Data Science all the same
C3_Witness ==
  \E r \in Reqs :
    /\ HasResult(r)
    /\ Result(r).predicted_field = "Data Science"
    /\ LET S == {Lower(s) : s \in Range(Get(th[r].resume_data, "skills", <<>>))}
       IN Cardinality(S \cap Range(web_keyword))
            > Cardinality(S \cap Range(ds_keyword))

(***************************************************************************)
(* C4.  The breakdown has exactly the five sections, a section is present  *)
(* exactly when one of its keywords occurs in the lower-cased text, and    *)
(* the score is 20 times the number of present sections, so one of 0, 20,  *)
(* 40, 60, 80, 100, however many keywords of a section occur.              *)
(***************************************************************************)
C4_ScoreIsTwentyPerSection ==
  \A r \in Reqs :
    HasResult(r) =>
      LET bd == Result(r).score_breakdown
          score == Result(r).resume_score
      IN /\ DOMAIN bd = SectionNames
         /\ \A k \in DOMAIN sections_to_check :
              bd[sections_to_check[k].section] <=>
                \E m \in DOMAIN sections_to_check[k].keywords :
                  Contains(Lower(th[r].resume_text),
                           sections_to_check[k].keywords[m])
         /\ score = 20 * Cardinality({s \in DOMAIN bd : bd[s]})
         /\ score \in {0, 20, 40, 60, 80, 100}

\* a text with both keywords of the objective section, and a score of 20
C4_Witness ==
  \E r \in Reqs :
    /\ HasResult(r)
    /\ Contains(Lower(th[r].resume_text), sections_to_check[1].keywords[1])
    /\ Contains(Lower(th[r].resume_text), sections_to_check[1].keywords[2])
    /\ Result(r).resume_score = 20

(***************************************************************************)
(* C5.  The level is a total function of the page count: 1 Fresher, 2      *)
(* Intermediate, 3 or more Experienced, and 0, a negative or an unset      *)
(* count the empty string; the levelling step fails for no page count.     *)
(* It fails for None, the value the key holds when the parser set no       *)
(* count: None >= 3 raises TypeError (src/api.py:96).                      *)
(***************************************************************************)
ExpectedLevel(d) ==
  IF "no_of_pages" \notin DOMAIN d \/ ~IsInt(d["no_of_pages"]) THEN ""
  ELSE IF d["no_of_pages"].v = 1 THEN "Fresher"
  ELSE IF d["no_of_pages"].v = 2 THEN "Intermediate"
  ELSE IF d["no_of_pages"].v >= 3 THEN "Experienced"
  ELSE ""

\* C5: every call whose reader succeeded gets a result, with the level that
\* the mapping gives for its page count
C5_LevelTotal ==
  \A r \in Reqs :
    (Left(r) /\ th[r].readerCalls = 1 /\ th[r].readerExc = "") =>
      /\ th[r].outcome.kind = "return"
      /\ HasResult(r)
      /\ Result(r).candidate_level = ExpectedLevel(th[r].resume_data)

(***************************************************************************)
(* C6.  When a request that saved its upload finishes, whatever the exit   *)
(* path, its file is gone and no failure of the cleanup is seen by the     *)
(* caller.  Two uploads of the same name in the same clock reading share   *)
(* one path (src/api.py:207); both find it (src/api.py:235), one removes   *)
(* it, and os.remove of the other raises out of the finally block          *)
(* (src/api.py:236), which replaces its response.                          *)
(***************************************************************************)
C6_FinishesClean ==
  \A r \in Reqs :
    (th[r].pc \in {"finally", "remove"} /\ th'[r].pc = "done") =>
      /\ th[r].path \notin fs'
      /\ "traceback" \notin DOMAIN th'[r].response[1].body

\* C6: every step that finishes a request leaves its file gone and shows
\* the caller no failure of the cleanup
C6_FileRemovedQuietly == [][C6_FinishesClean]_vars

\* the first part of C6 alone: the file is gone when the request finishes
C6_FileGone ==
  [][\A r \in Reqs :
       (th[r].pc \in {"finally", "remove"} /\ th'[r].pc = "done") =>
         th[r].path \notin fs']_vars

(***************************************************************************)
(* C7.  When pdf_reader fails, analyze_resume reports an analysis-level    *)
(* error that carries the reason.  The call of pdf_reader is outside any   *)
(* try (src/api.py:86): the exception leaves analyze_resume and the route  *)
(* answers 500 with the generic text.                                      *)
(***************************************************************************)
C7_ReaderFailureReported ==
  \A r \in Reqs :
    (Left(r) /\ th[r].readerExc # "") =>
      /\ th[r].outcome.kind = "return"
      /\ "error" \in DOMAIN Result(r)
      /\ th[r].readerExc \in Range(Result(r).error)

(***************************************************************************)
(* C8.  In every call the parser is invoked first and at most once, the    *)
(* reader at most once and only after the parser; when the parser raises   *)
(* or returns nothing usable the call returns an error at once, with the   *)
(* parser's error text when it raised, and the reader is never invoked.    *)
(***************************************************************************)
C8_ParserFirstNoRetry ==
  \A r \in Reqs :
    /\ th[r].parserCalls <= 1
    /\ th[r].readerCalls <= 1
    /\ th[r].readerCalls = 1 =>
         th[r].parserCalls = 1 /\ th[r].parserOut.kind = "dict"
    /\ th[r].parserOut.kind \in {"raise", "None", "empty"} =>
         /\ Left(r)
         /\ th[r].readerCalls = 0
         /\ th[r].outcome.kind = "return"
         /\ "error" \in DOMAIN Result(r)
         /\ th[r].parserOut.kind = "raise" =>
              th[r].parserOut.e \in Range(Result(r).error)

\* a call whose parser raised "corrupt file" and that returned the error
C8_Witness ==
  \E r \in Reqs :
    /\ Left(r)
    /\ th[r].parserCalls = 1
    /\ th[r].parserOut = [kind |-> "raise", e |-> "corrupt file"]
    /\ th[r].readerCalls = 0
    /\ "corrupt file" \in Range(Result(r).error)

(***************************************************************************)
(* C9.  A call that samples alone: for a field other than Other the        *)
(* recommended list has min(5, length of the field's list) entries, all    *)
(* from that list, none twice; for Other it is empty and the call          *)
(* succeeds.                                                               *)
(***************************************************************************)
C9_SampleShape ==
  \A r \in Reqs :
    HasResult(r) =>
      LET f == Result(r).predicted_field
          rc == Result(r).recommended_courses
      IN IF f = "Other"
         THEN /\ rc = <<>>
              /\ th[r].pc = "done" => th[r].response[1].status = 200
         ELSE /\ Len(rc) = Min(5, Len(loaded[f]))
              /\ DrawnFrom(rc, f)
              /\ DupFree(rc)

\* five courses out of a longer list that has been shuffled out of order
C9_Witness ==
  \E r \in Reqs :
    /\ HasResult(r)
    /\ Result(r).predicted_field = "Data Science"
    /\ Len(loaded["Data Science"]) > 5
    /\ Len(Result(r).recommended_courses) = 5
    /\ Result(r).recommended_courses # Recommended(loaded["Data Science"])

(***************************************************************************)
(* C10.  Every request gets exactly one response, fixed by the outcome:    *)
(* 400 with an error for a missing part, an empty file name or an error    *)
(* returned by the analysis; 500 with the generic text for an exception    *)
(* during the analysis; 200 with the result otherwise.  It fails through   *)
(* the cleanup of C6: the exception of os.remove replaces the response.    *)
(***************************************************************************)
C10_ResponseByOutcome ==
  \A r \in Reqs :
    th[r].pc = "done" =>
      /\ Len(th[r].response) = 1
      /\ LET resp == th[r].response[1]
         IN IF th[r].parserCalls = 0
            THEN resp.status = 400 /\ DOMAIN resp.body = {"error"}
            ELSE IF th[r].outcome.kind = "raise"
            THEN resp.status = 500 /\ resp.body = GenericError
            ELSE IF "error" \in DOMAIN Result(r)
            THEN resp.status = 400 /\ resp.body = Result(r)
            ELSE resp.status = 200 /\ resp.body = Result(r)
=============================================================================
